---- MODULE Spec2Model ----
(***************************************************************************)
(* A model of lexer-next's createLexer: the one-token-lookahead cursor     *)
(* over a forward-only iterator of raw matches, with its filter and its    *)
(* error handler.  Every operation of the Lexer interface is an operator   *)
(* from the closure's state to an outcome (the new closure state, the      *)
(* value returned, the error raised, the handler invocations and the       *)
(* number of it.next() calls), and an action that applies it.              *)
(***************************************************************************)
EXTENDS Integers, Sequences, FiniteSets, TLC

\* ------------------------------------------------------------------ bounds

\* The longest input, in lexemes.
MaxWords == 3

\* The longest input of each of two lexers made by one factory, in lexemes.
MaxPairWords == 2

\* The most calls one of two lexers is ahead of the other while both are given
\* the same calls.
MaxLag == 2

\* ------------------------------------------------------------ JS values

\* A JavaScript value as the lexer sees it: a token, or one of the values
\* undefined, null, false; "none" stands for "the call returned nothing"
\* (it raised).  All share one record shape.
NoSource == [index |-> -1, input |-> ""]

Undefined == [type |-> "undefined", group |-> "", value |-> "", index |-> -1, source |-> NoSource]

Null == [type |-> "null", group |-> "", value |-> "", index |-> -1, source |-> NoSource]

False == [type |-> "false", group |-> "", value |-> "", index |-> -1, source |-> NoSource]

NoValue == [type |-> "none", group |-> "", value |-> "", index |-> -1, source |-> NoSource]

\* JavaScript truthiness: every object (a token) is truthy.
Truthy(x) == x.type = "token"

\* An optional string argument: <<>> when absent, <<s>> when given.
Absent == <<>>

Given(s) == <<s>>

\* value == null
IsNullish(opt) == opt = <<>>

\* ------------------------------------------------------------- tokens

\* MatchToken.create(value, group, source): index is source.index.
MatchTokenCreate(value, group, source) ==
  [type |-> "token", group |-> group, value |-> value, index |-> source.index, source |-> source]

\* Token.is(group, value?)
Is(token, group, value) ==
  /\ group = token.group
  /\ (IsNullish(value) \/ value[1] = token.value)

\* --------------------------------------------------------- tokenizer

Lexemes == {"foo", "0123"}

GroupOf(lexeme) == IF lexeme = "0123" THEN "number" ELSE "ident"

RECURSIVE Join(_)
\* The input text: the lexemes separated by single spaces.
Join(ws) ==
  IF ws = <<>> THEN ""
  ELSE IF Len(ws) = 1 THEN ws[1]
  ELSE ws[1] \o " " \o Join(Tail(ws))

RECURSIVE OffsetOf(_, _)
\* The start offset of the i-th lexeme in Join(ws).
OffsetOf(ws, i) ==
  IF i = 1 THEN 0 ELSE OffsetOf(ws, i - 1) + Len(ws[i - 1]) + 1

\* input.matchAll(new RegExpToken(/(?<ident>[a-z]+)|(?<number>[0-9]+)/g)):
\* the raw matches of the input, in order, each already a token.
Tokenize(ws) ==
  [i \in 1..Len(ws) |->
     MatchTokenCreate(ws[i], GroupOf(ws[i]), [index |-> OffsetOf(ws, i), input |-> Join(ws)])]

RECURSIVE SeqsUpTo(_)
SeqsUpTo(n) ==
  IF n = 0 THEN {<<>>}
  ELSE LET shorter == SeqsUpTo(n - 1)
       IN shorter \cup {Append(s, w) : s \in {t \in shorter : Len(t) = n - 1}, w \in Lexemes}

Inputs == SeqsUpTo(MaxWords)

\* ------------------------------------------------ filters and handlers

\* The filter functions a caller installs; "all" is the default.
Filters == {"all", "number", "ident", "none"}

\* filterFn(token)
FilterFn(fn, token) ==
  CASE fn = "all" -> TRUE
    [] fn = "number" -> token.group = "number"
    [] fn = "ident" -> token.group = "ident"
    [] fn = "none" -> FALSE

\* The error handlers: "default" is the lexer's own, the others are the
\* caller's: two that return normally and one that throws what it is given.
Handlers == {"default", "collect", "ignore", "rethrow"}

\* The handlers a caller can pass to onerror: the default one is private to
\* the closure.
CallerHandlers == Handlers \ {"default"}

\* Throws as it would be if the default handler returned normally.
ThrowsOnlyCallers(fn) == fn = "rethrow"

Throws(fn) == fn \in {"default", "rethrow"}

\* ------------------------------------------------------------- errors

Quoted(s) == "\"" \o s \o "\""

\* new UnexpectedToken(currentToken, expectedGroup, expectedValue)
UnexpectedToken(currentToken, expectedGroup, expectedValue) ==
  [name |-> "LexerErrorUnexpectedToken",
   currentToken |-> currentToken,
   expectedGroup |-> expectedGroup,
   expectedValue |-> expectedValue,
   message |->
        "Unexpected token: " \o currentToken.value
     \o "\n        expected: " \o expectedGroup \o " "
     \o (IF ~IsNullish(expectedValue) /\ expectedValue[1] # "" THEN Quoted(expectedValue[1]) ELSE "")
     \o "\n    but received: " \o currentToken.group \o " " \o Quoted(currentToken.value)
     \o "\n     at position: " \o ToString(currentToken.index)]

\* new LexerError(cause)
LexerError(cause) ==
  [name |-> "LexerError", message |-> cause.message, cause |-> cause]

\* ------------------------------------------------------ the closure

VARIABLES
  input,     \* the input string the lexer was created for
  it,        \* the iterator: the raw matches not pulled yet
  last,      \* let last: Token
  curr,      \* let curr: Token
  errorFn,   \* let errorFn: ErrorHandler
  filterFn,  \* let filterFn: FilterFunction
  ev,        \* the call made last: its arguments, its outcome, the state before it
  installed, \* history: the handler the caller passed to onerror last
  raw,       \* history: all the raw matches tokenize(input) yields, in order
  lastAdvanced, \* history (SpecHist): the value the caller's latest advance() returned
  scenario,  \* history (SpecHist): how the filter has been used so far
  advanced,  \* history (SpecHist): the advance() calls made in the scenario "filtered"
  passed,    \* history (SpecHist): the last raw match returned or discarded so far
  pair       \* (SpecPair) two lexers made by one factory, and the calls made on them

\* The variables of the one lexer that Spec and SpecHist follow.
single ==
  <<input, it, last, curr, errorFn, filterFn, ev, installed, raw, lastAdvanced, scenario,
    advanced, passed>>

vars == <<single, pair>>

\* eof as it would be if it carried no input in its source.
eofNoInput(inp) == MatchTokenCreate("", "eof", [index |-> Len(inp), input |-> ""])

\* eof as it would be if it sat on the last character of the input.
eofAtLastChar(inp) == MatchTokenCreate("", "eof", [index |-> Len(inp) - 1, input |-> inp])

\* eof as it would be if it carried no position of its own.
eofAtStart(inp) == MatchTokenCreate("", "eof", [index |-> 0, input |-> inp])

\* const eof = MatchToken.create('', 'eof', { index: input.length, input })
eof(inp) == MatchTokenCreate("", "eof", [index |-> Len(inp), input |-> inp])

\* The variables createLexer's closure holds, as one record.
Lexer ==
  [input |-> input, it |-> it, last |-> last, curr |-> curr,
   errorFn |-> errorFn, filterFn |-> filterFn]

\* What a call leaves behind: the closure after it, the value it returned
\* (NoValue when it raised), the error it raised, the error handler
\* invocations it made, and how many times it called it.next().
Outcome(L, ret, raised, calls, pulls) ==
  [lexer |-> L, ret |-> ret, raised |-> raised, calls |-> calls, pulls |-> pulls]

RECURSIVE nextEofOnce(_)
\* next as it would be if it yielded eof once and it.next().value after that.
nextEofOnce(L) ==
  IF L.it = <<>>
    THEN [token |-> IF L.curr.group = "eof" THEN Undefined ELSE eof(L.input),
          it |-> L.it, pulls |-> 1]
    ELSE LET token == Head(L.it)
         IN IF ~FilterFn(L.filterFn, token)
              THEN LET r == nextEofOnce([L EXCEPT !.it = Tail(L.it)])
                   IN [r EXCEPT !.pulls = @ + 1]
              ELSE [token |-> token, it |-> Tail(L.it), pulls |-> 1]

RECURSIVE nextPullsAhead(_)
\* next as it would be if it pulled the match after the one it returns.
nextPullsAhead(L) ==
  IF L.it = <<>>
    THEN [token |-> eof(L.input), it |-> L.it, pulls |-> 1]
    ELSE LET token == Head(L.it)
         IN IF ~FilterFn(L.filterFn, token)
              THEN LET r == nextPullsAhead([L EXCEPT !.it = Tail(L.it)])
                   IN [r EXCEPT !.pulls = @ + 1]
              ELSE [token |-> token,
                    it |-> IF Tail(L.it) = <<>> THEN <<>> ELSE Tail(Tail(L.it)),
                    pulls |-> 2]

\* next as it would be if it returned the first match it pulls, whatever the
\* filter says.
nextNoSkip(L) ==
  IF L.it = <<>>
    THEN [token |-> eof(L.input), it |-> L.it, pulls |-> 1]
    ELSE [token |-> Head(L.it), it |-> Tail(L.it), pulls |-> 1]

RECURSIVE nextReadsPastEnd(_)
\* next as it would be if it read the exhausted iterator a second time.
nextReadsPastEnd(L) ==
  IF L.it = <<>>
    THEN [token |-> eof(L.input), it |-> L.it, pulls |-> 2]
    ELSE LET token == Head(L.it)
         IN IF ~FilterFn(L.filterFn, token)
              THEN LET r == nextReadsPastEnd([L EXCEPT !.it = Tail(L.it)])
                   IN [r EXCEPT !.pulls = @ + 1]
              ELSE [token |-> token, it |-> Tail(L.it), pulls |-> 1]

RECURSIVE next(_)
\* const next = () => { while ((token = it.next().value)) { if (token &&
\* !filterFn(token)) continue; break }; if (!token) token = eof; return token }
\* Yields the token, the iterator after the pulls, and the number of pulls.
next(L) ==
  IF L.it = <<>>
    THEN [token |-> eof(L.input), it |-> L.it, pulls |-> 1]
    ELSE LET token == Head(L.it)
         IN IF ~FilterFn(L.filterFn, token)
              THEN LET r == next([L EXCEPT !.it = Tail(L.it)])
                   IN [r EXCEPT !.pulls = @ + 1]
              ELSE [token |-> token, it |-> Tail(L.it), pulls |-> 1]

\* advance as it would be if it did not assign last.
advanceKeepsLast(L) ==
  LET n == next(L)
      M == [L EXCEPT !.curr = n.token, !.it = n.it]
  IN Outcome(M, L.curr, <<>>, <<>>, n.pulls)

\* advance as it would be if it took the next raw match whatever the filter.
advanceUnfiltered(L) ==
  LET n == nextNoSkip(L)
      M == [L EXCEPT !.last = L.curr, !.curr = n.token, !.it = n.it]
  IN Outcome(M, M.last, <<>>, <<>>, n.pulls)

\* advance as it would be if it returned the new current token.
advanceReturnsNew(L) ==
  LET n == next(L)
      M == [L EXCEPT !.last = L.curr, !.curr = n.token, !.it = n.it]
  IN Outcome(M, M.curr, <<>>, <<>>, n.pulls)

\* const advance = () => (([last, curr] = [curr, next()]), last)
advance(L) ==
  LET n == next(L)
      M == [L EXCEPT !.last = L.curr, !.curr = n.token, !.it = n.it]
  IN Outcome(M, M.last, <<>>, <<>>, n.pulls)

\* peek as it would be if it consumed the token it returns.
peekConsumes(L, group, value) ==
  LET a == advance(L)
      ret == IF ~IsNullish(group)
               THEN (IF Is(L.curr, group[1], value) THEN L.curr ELSE False)
               ELSE L.curr
  IN Outcome(a.lexer, ret, <<>>, <<>>, a.pulls)

\* peek as it would be if it compared the group alone.
peekIgnoresValue(L, group, value) ==
  LET ret == IF ~IsNullish(group)
               THEN (IF Is(L.curr, group[1], Absent) THEN L.curr ELSE False)
               ELSE L.curr
  IN Outcome(L, ret, <<>>, <<>>, 0)

\* const peek = (group?, value?) => group != null ? curr.is(group, value) && curr : curr
peek(L, group, value) ==
  LET ret == IF ~IsNullish(group)
               THEN (IF Is(L.curr, group[1], value) THEN L.curr ELSE False)
               ELSE L.curr
  IN Outcome(L, ret, <<>>, <<>>, 0)

\* accept as it would be if it reported a mismatch the way expect does.
acceptReports(L, group, value) ==
  IF Is(L.curr, group, value)
    THEN advance(L)
    ELSE LET error == LexerError(UnexpectedToken(L.curr, group, value))
         IN Outcome(L, IF Throws(L.errorFn) THEN NoValue ELSE Null,
                    IF Throws(L.errorFn) THEN <<error>> ELSE <<>>,
                    <<[handler |-> L.errorFn, error |-> error]>>, 0)

\* accept as it would be if it never matched the end-of-input token.
acceptRefusesEof(L, group, value) ==
  IF Is(L.curr, group, value) /\ L.curr.group # "eof"
    THEN advance(L)
    ELSE Outcome(L, Null, <<>>, <<>>, 0)

\* accept as it would be if it returned the current token and stayed on it.
acceptStays(L, group, value) ==
  IF Is(L.curr, group, value)
    THEN Outcome(L, L.curr, <<>>, <<>>, 0)
    ELSE Outcome(L, Null, <<>>, <<>>, 0)

\* accept as it would be if it compared the group alone.
acceptIgnoresValue(L, group, value) ==
  IF Is(L.curr, group, Absent) THEN advance(L) ELSE Outcome(L, Null, <<>>, <<>>, 0)

\* accept as it would be if it advanced before it compared.
acceptAdvancesFirst(L, group, value) ==
  IF Is(L.curr, group, value) THEN advance(L) ELSE Outcome(advance(L).lexer, Null, <<>>, <<>>, 1)

\* const accept = (group, value?) => (curr.is(group, value) ? advance() : null)
accept(L, group, value) ==
  IF Is(L.curr, group, value) THEN advance(L) ELSE Outcome(L, Null, <<>>, <<>>, 0)

\* errorFn(error): the handler is called once; the default handler and a
\* caller's handler that throws raise the error to expect's caller.
CallErrorFn(fn, error) ==
  [calls |-> <<[handler |-> fn, error |-> error]>>,
   raised |-> IF Throws(fn) THEN <<error>> ELSE <<>>]

\* expect as it would be if it passed the group alone on to accept.
expectGroupOnly(L, group, value) ==
  LET a == accept(L, group, Absent)
      token == a.ret
  IN IF ~Truthy(token)
       THEN LET h == CallErrorFn(a.lexer.errorFn,
                                 LexerError(UnexpectedToken(a.lexer.curr, group, value)))
            IN Outcome(a.lexer,
                       IF h.raised # <<>> THEN NoValue ELSE token,
                       h.raised, h.calls, a.pulls)
       ELSE a

\* expect as it would be if it reported the previous token as the received one.
expectReportsLast(L, group, value) ==
  LET a == accept(L, group, value)
      token == a.ret
  IN IF ~Truthy(token)
       THEN LET h == CallErrorFn(a.lexer.errorFn,
                                 LexerError(UnexpectedToken(a.lexer.last, group, value)))
            IN Outcome(a.lexer,
                       IF h.raised # <<>> THEN NoValue ELSE token,
                       h.raised, h.calls, a.pulls)
       ELSE a

\* expect as it would be if it returned nothing after the handler returned.
expectReturnsUndefined(L, group, value) ==
  LET a == accept(L, group, value)
      token == a.ret
  IN IF ~Truthy(token)
       THEN LET h == CallErrorFn(a.lexer.errorFn,
                                 LexerError(UnexpectedToken(a.lexer.curr, group, value)))
            IN Outcome(a.lexer,
                       IF h.raised # <<>> THEN NoValue ELSE Undefined,
                       h.raised, h.calls, a.pulls)
       ELSE a

\* const expect = (group, value?) => { const token = accept(group, value)
\*   if (!token) errorFn(new LexerError(new UnexpectedToken(curr, group, value)))
\*   return token }
expect(L, group, value) ==
  LET a == accept(L, group, value)
      token == a.ret
  IN IF ~Truthy(token)
       THEN LET h == CallErrorFn(a.lexer.errorFn,
                                 LexerError(UnexpectedToken(a.lexer.curr, group, value)))
            IN Outcome(a.lexer,
                       IF h.raised # <<>> THEN NoValue ELSE token,
                       h.raised, h.calls, a.pulls)
       ELSE a

\* onerror as it would be if it dropped the handler it is given.
onerrorIgnored(L, fn) ==
  Outcome(L, Undefined, <<>>, <<>>, 0)

\* const onerror = (fn) => { errorFn = fn }
onerror(L, fn) ==
  Outcome([L EXCEPT !.errorFn = fn], Undefined, <<>>, <<>>, 0)

\* filter as it would be if it re-validated by calling advance().
filterAdvances(L, fn) ==
  LET M == [L EXCEPT !.filterFn = fn]
  IN IF ~FilterFn(M.filterFn, M.curr)
       THEN LET a == advance(M)
            IN Outcome(a.lexer, Undefined, <<>>, <<>>, a.pulls)
       ELSE Outcome(M, Undefined, <<>>, <<>>, 0)

\* filter as it would be if it only stored the predicate.
filterNoRevalidate(L, fn) ==
  Outcome([L EXCEPT !.filterFn = fn], Undefined, <<>>, <<>>, 0)

\* filter as it would be if it pulled before it stored the predicate.
filterPullsWithOld(L, fn) ==
  IF ~FilterFn(fn, L.curr)
    THEN LET n == next(L)
         IN Outcome([L EXCEPT !.filterFn = fn, !.curr = n.token, !.it = n.it],
                    Undefined, <<>>, <<>>, n.pulls)
    ELSE Outcome([L EXCEPT !.filterFn = fn], Undefined, <<>>, <<>>, 0)

\* filter as it would be if it pulled whether or not current passes.
filterAlwaysPulls(L, fn) ==
  LET M == [L EXCEPT !.filterFn = fn]
      n == next(M)
  IN Outcome([M EXCEPT !.curr = n.token, !.it = n.it], Undefined, <<>>, <<>>, n.pulls)

\* const filter = (fn) => { filterFn = fn; if (!filterFn(curr)) curr = next() }
filter(L, fn) ==
  LET M == [L EXCEPT !.filterFn = fn]
  IN IF ~FilterFn(M.filterFn, M.curr)
       THEN LET n == next(M)
            IN Outcome([M EXCEPT !.curr = n.token, !.it = n.it], Undefined, <<>>, <<>>, n.pulls)
       ELSE Outcome(M, Undefined, <<>>, <<>>, 0)

\* createLexer as it would be without the implicit advance().
createLexerNoAdvance(ws) ==
  Outcome([input |-> Join(ws), it |-> Tokenize(ws), last |-> Undefined, curr |-> Undefined,
           errorFn |-> "default", filterFn |-> "all"],
          Undefined, <<>>, <<>>, 0)

\* createLexer(tokenize)(input): the closure's variables as declared, then
\* the implicit advance().
createLexer(ws) ==
  advance([input |-> Join(ws), it |-> Tokenize(ws), last |-> Undefined, curr |-> Undefined,
           errorFn |-> "default", filterFn |-> "all"])

\* ------------------------------------------------------------ actions

\* The arguments callers pass.
Groups == {"ident", "number", "eof", "any"}

Values == {Absent, Given("foo"), Given("0123"), Given("")}

OptGroups == {Absent} \cup {Given(g) : g \in Groups}

\* The record of a call.
Event(op, group, value, fn, pre, out) ==
  [op |-> op, group |-> group, value |-> value, fn |-> fn, pre |-> pre,
   ret |-> out.ret, raised |-> out.raised, calls |-> out.calls, pulls |-> out.pulls]

\* The use made of the filter: "new" until the first advance or filter call,
\* "filtered" once filter has been called on a new lexer and while only
\* advance has consumed since, "mixed" otherwise.
ScenarioAfter(op, out) ==
  CASE op = "filter" -> IF scenario = "new" THEN "filtered" ELSE "mixed"
    [] op = "advance" -> IF scenario = "filtered" THEN "filtered" ELSE "mixed"
    [] op \in {"accept", "expect"} -> IF Truthy(out.ret) THEN "mixed" ELSE scenario
    [] OTHER -> scenario

\* The most advance() calls counted: one more than any input has tokens,
\* end of input included.
MaxAdvanced == MaxWords + 2

\* The advance() calls made since filter was called on a new lexer, while the
\* scenario is "filtered"; counted up to MaxAdvanced.
AdvancedAfter(op, out) ==
  IF ScenarioAfter(op, out) # "filtered" THEN 0
  ELSE IF op # "advance" THEN advanced
  ELSE IF advanced < MaxAdvanced THEN advanced + 1
  ELSE advanced

\* The position of the raw match x in the sequence of raw matches.
PosOf(x) == CHOOSE i \in 1..Len(raw) : raw[i] = x

\* x is a token other than the end-of-input token.
IsMatch(x) == Truthy(x) /\ x.group # "eof"

\* The positions of the raw matches a call gave up: the one it returned from
\* advance, accept or expect, the ones it pulled and its filter rejected, and
\* the current one that filter() found rejected and replaced.
GivenUp(op, fn, out) ==
  LET base == Len(raw) - Len(it)
      k == Len(it) - Len(out.lexer.it)
  IN    (IF op \in {"advance", "accept", "expect"} /\ IsMatch(out.ret)
           THEN {PosOf(out.ret)} ELSE {})
     \cup {base + j : j \in {i \in 1..k : ~FilterFn(out.lexer.filterFn, it[i])}}
     \cup (IF op = "filter" /\ IsMatch(curr) /\ ~FilterFn(fn, curr)
           THEN {PosOf(curr)} ELSE {})

\* The highest position given up so far, 0 when there is none.
PassedAfter(op, fn, out) ==
  LET s == GivenUp(op, fn, out) \cup {passed}
  IN CHOOSE m \in s : \A n \in s : n <= m

\* A call of a Lexer method with its arguments.
CallOf(op, group, value, fn) == [op |-> op, group |-> group, value |-> value, fn |-> fn]

\* The method call on the closure L.
Call(L, call) ==
  CASE call.op = "advance" -> advance(L)
    [] call.op = "peek" -> peek(L, call.group, call.value)
    [] call.op = "accept" -> accept(L, call.group[1], call.value)
    [] call.op = "expect" -> expect(L, call.group[1], call.value)
    [] call.op = "onerror" -> onerror(L, call.fn)
    [] call.op = "filter" -> filter(L, call.fn)

\* What the caller sees of a call: the value returned and the error raised.
Seen(out) == [ret |-> out.ret, raised |-> out.raised]

\* The closures as they would be if filterFn were declared in the factory,
\* outside the function that makes a lexer.
ClosuresSharedFilter(closures, c, L) ==
  [d \in DOMAIN closures |->
     IF d = c THEN L ELSE [closures[d] EXCEPT !.filterFn = L.filterFn]]

\* (tokenize) => (input) => { const eof; const it; let last, curr, errorFn,
\* filterFn; ... }: every lexer has variables of its own, and a call on
\* lexer c assigns to those of c.
Closures(closures, c, L) == [closures EXCEPT ![c] = L]

\* Two lexers just made by one factory for the inputs a and b.
PairOf(a, b) ==
  [lexer |-> <<createLexer(a).lexer, createLexer(b).lexer>>,
   who |-> 0,
   lag |-> <<>>,
   sync |-> a = b]

\* The pair while Spec and SpecHist follow one lexer.
Idle == PairOf(<<>>, <<>>)

\* The history variables that only SpecHist keeps.
hist == <<lastAdvanced, scenario, advanced, passed>>

\* A call ran: the closure's variables are what it left.
Step(op, group, value, fn, out) ==
  /\ input' = out.lexer.input
  /\ it' = out.lexer.it
  /\ last' = out.lexer.last
  /\ curr' = out.lexer.curr
  /\ errorFn' = out.lexer.errorFn
  /\ filterFn' = out.lexer.filterFn
  /\ ev' = Event(op, group, value, fn, Lexer, out)
  /\ installed' = IF op = "onerror" THEN fn ELSE installed
  /\ raw' = raw
  /\ pair' = pair

\* A call ran, its history not kept.
Ran(op, group, value, fn, out) ==
  /\ Step(op, group, value, fn, out)
  /\ UNCHANGED hist

\* A call ran, its history kept.
Tracked(op, group, value, fn, out) ==
  /\ Step(op, group, value, fn, out)
  /\ lastAdvanced' = IF op = "advance" THEN out.ret ELSE lastAdvanced
  /\ scenario' = ScenarioAfter(op, out)
  /\ advanced' = AdvancedAfter(op, out)
  /\ passed' = PassedAfter(op, fn, out)

\* createLexer(tokenize)(ws) has returned the lexer the variables describe.
Created(ws) ==
    LET out == createLexer(ws)
    IN /\ input = out.lexer.input
       /\ it = out.lexer.it
       /\ last = out.lexer.last
       /\ curr = out.lexer.curr
       /\ errorFn = out.lexer.errorFn
       /\ filterFn = out.lexer.filterFn
       /\ ev = Event("createLexer", Absent, Absent, "",
                     [out.lexer EXCEPT !.it = Tokenize(ws), !.last = Undefined, !.curr = Undefined],
                     out)
       /\ installed = "default"
       /\ raw = Tokenize(ws)
       /\ lastAdvanced = Undefined
       /\ scenario = "new"
       /\ advanced = 0
       /\ passed = 0

Init == \E ws \in Inputs : Created(ws) /\ pair = Idle

Advance == Ran("advance", Absent, Absent, "", advance(Lexer))

Peek == \E g \in OptGroups, v \in Values : Ran("peek", g, v, "", peek(Lexer, g, v))

Accept == \E g \in Groups, v \in Values : Ran("accept", Given(g), v, "", accept(Lexer, g, v))

Expect == \E g \in Groups, v \in Values : Ran("expect", Given(g), v, "", expect(Lexer, g, v))

OnError == \E fn \in CallerHandlers : Ran("onerror", Absent, Absent, fn, onerror(Lexer, fn))

Filter == \E fn \in Filters : Ran("filter", Absent, Absent, fn, filter(Lexer, fn))

Next == Advance \/ Peek \/ Accept \/ Expect \/ OnError \/ Filter

Spec == Init /\ [][Next]_vars

\* ------------------------------------------- the calls with their history

\* The same calls with the history of the advance() and filter() calls kept,
\* for the properties of whole runs; the arguments are drawn from smaller
\* sets: a group with or without a value that can match, one handler that
\* returns and one that throws.
HistGroups == {"ident", "number", "eof"}

HistValues == {Absent, Given("foo")}

HistHandlers == {"collect", "rethrow"}

HistAdvance == Tracked("advance", Absent, Absent, "", advance(Lexer))

HistPeek ==
  \E g \in {Absent, Given("ident")} : Tracked("peek", g, Absent, "", peek(Lexer, g, Absent))

HistAccept ==
  \E g \in HistGroups, v \in HistValues :
    Tracked("accept", Given(g), v, "", accept(Lexer, g, v))

HistExpect ==
  \E g \in HistGroups, v \in HistValues :
    Tracked("expect", Given(g), v, "", expect(Lexer, g, v))

HistOnError == \E fn \in HistHandlers : Tracked("onerror", Absent, Absent, fn, onerror(Lexer, fn))

HistFilter == \E fn \in Filters : Tracked("filter", Absent, Absent, fn, filter(Lexer, fn))

HistNext == HistAdvance \/ HistPeek \/ HistAccept \/ HistExpect \/ HistOnError \/ HistFilter

SpecHist == Init /\ [][HistNext]_vars

\* ------------------------------------------ two lexers of one factory

\* In SpecPair one factory has made two lexers, pair.lexer[1] and
\* pair.lexer[2], and pair.who is the lexer called last.  While pair.sync
\* holds the two were made for the same input and have been given the same
\* calls, lexer 1 first: pair.lag holds the calls lexer 2 has not been given
\* yet, with what lexer 1 returned.

PairInputs == SeqsUpTo(MaxPairWords)

PairCalls ==
       {CallOf("advance", Absent, Absent, "")}
  \cup {CallOf("accept", Given(g), Absent, "") : g \in {"ident", "number"}}
  \cup {CallOf("expect", Given("ident"), Absent, "")}
  \cup {CallOf("filter", Absent, Absent, fn) : fn \in {"all", "number"}}
  \cup {CallOf("onerror", Absent, Absent, "collect")}

InitPair == Created(<<>>) /\ \E a, b \in PairInputs : pair = PairOf(a, b)

\* A call on lexer c.  A call on lexer 1 is kept for lexer 2 while the two are
\* in step and lexer 1 is not too far ahead; any other call ends the step.
PairCall ==
  \E c \in 1..2, call \in PairCalls :
    LET out == Call(pair.lexer[c], call)
        ahead == pair.sync /\ c = 1 /\ Len(pair.lag) < MaxLag
    IN /\ pair' = [lexer |-> Closures(pair.lexer, c, out.lexer),
                   who |-> c,
                   lag |-> IF ahead THEN Append(pair.lag, [call |-> call, seen |-> Seen(out)])
                           ELSE <<>>,
                   sync |-> ahead]
       /\ UNCHANGED single

\* Lexer 2 is given the call that lexer 1 was given before it.
PairReplay ==
  /\ pair.sync
  /\ pair.lag # <<>>
  /\ LET out == Call(pair.lexer[2], Head(pair.lag).call)
     IN pair' = [lexer |-> Closures(pair.lexer, 2, out.lexer),
                 who |-> 2,
                 lag |-> Tail(pair.lag),
                 sync |-> TRUE]
  /\ UNCHANGED single

PairNext == PairCall \/ PairReplay

SpecPair == InitPair /\ [][PairNext]_vars

\* ------------------------------------------------------- properties

\* The claims' reading of "current.group equals g and (v is absent or
\* current.value equals v)".
Matches(token, g, v) ==
  /\ token.type = "token"
  /\ token.group = g
  /\ (v = Absent \/ (v # Absent /\ token.value = v[1]))

\* The end-of-input token of this lexer's input.
IsEndOfInput(token) ==
  /\ token.type = "token"
  /\ token.group = "eof"
  /\ token.value = ""
  /\ token.index = Len(input)

\* The first of the raw matches s that the filter fn accepts, if any.
AcceptedAt(s, fn) == {i \in 1..Len(s) : FilterFn(fn, s[i])}

FirstAcceptedAt(s, fn) == CHOOSE i \in AcceptedAt(s, fn) : \A j \in AcceptedAt(s, fn) : i <= j

\* accept(g, v) fails in the closure state L: it returns no token.
AcceptFails(L, g, v) == ~Truthy(accept(L, g[1], v).ret)

\* The state the call recorded in ev left is the state it found.
NothingChanged ==
  /\ curr = ev.pre.curr
  /\ last = ev.pre.last
  /\ it = ev.pre.it
  /\ filterFn = ev.pre.filterFn
  /\ errorFn = ev.pre.errorFn

\* C1: advance() returns the token peek() would have returned just before
\* the call, stores it as previous, and makes current the next raw match the
\* active filter accepts, or the end-of-input token when none remains.
C1_AdvanceShifts ==
  ev.op = "advance" =>
    /\ ev.ret = peek(ev.pre, Absent, Absent).ret
    /\ last = ev.ret
    /\ IF AcceptedAt(ev.pre.it, ev.pre.filterFn) = {}
         THEN IsEndOfInput(curr)
         ELSE curr = ev.pre.it[FirstAcceptedAt(ev.pre.it, ev.pre.filterFn)]

\* An advance that skipped a rejected raw match on its way to an accepted one.
C1_Witness ==
  /\ ev.op = "advance"
  /\ ev.pre.filterFn = "number"
  /\ ev.pulls = 2
  /\ curr.group = "number"
  /\ ev.ret.group = "number"

\* C2: accept(g, v) returns a token exactly when current matched (g, v) at
\* call time; then it returns the current of before the call and has done
\* exactly one advance().
C2_AcceptExact ==
  ev.op = "accept" =>
    LET m == Matches(ev.pre.curr, ev.group[1], ev.value)
    IN /\ Truthy(ev.ret) <=> m
       /\ m => /\ ev.ret = ev.pre.curr
               /\ Lexer = advance(ev.pre).lexer
               /\ ev.pulls = advance(ev.pre).pulls

\* An accept with a value that succeeded.
C2_Witness ==
  /\ ev.op = "accept"
  /\ ev.value = Given("0123")
  /\ Truthy(ev.ret)
  /\ ev.ret.value = "0123"

\* C3: a failing accept(g, v) changes nothing (current, previous, filter,
\* handler, raw matches pulled), invokes no handler and returns the falsy null.
C3_AcceptFailFrame ==
  (ev.op = "accept" /\ ~Truthy(ev.ret)) =>
    /\ NothingChanged
    /\ ev.pulls = 0
    /\ ev.calls = <<>>
    /\ ev.raised = <<>>
    /\ ev.ret = Null
    /\ ~Truthy(ev.ret)

\* An accept that failed on the value alone, with raw matches still to pull.
C3_Witness ==
  /\ ev.op = "accept"
  /\ ev.pre.curr.group = "ident"
  /\ ev.group = Given("ident")
  /\ ev.value = Given("0123")
  /\ ev.ret = Null
  /\ it # <<>>

\* C4: peek in every form leaves current, previous, filter, handler and the
\* raw matches pulled as they were, invokes nothing and raises nothing; so a
\* peek() that follows a peek() returns the identical token.
C4_PeekPure ==
  [][/\ ev'.op = "peek" =>
          /\ curr' = curr /\ last' = last /\ it' = it
          /\ filterFn' = filterFn /\ errorFn' = errorFn
          /\ ev'.pulls = 0 /\ ev'.calls = <<>> /\ ev'.raised = <<>>
     /\ (ev.op = "peek" /\ ev.group = Absent /\ ev'.op = "peek" /\ ev'.group = Absent) =>
          /\ ev'.ret = ev.ret
          /\ Truthy(ev'.ret)]_vars

\* A peek() made after the cursor has moved, with raw matches still to pull.
C4_Witness ==
  /\ ev.op = "peek"
  /\ ev.group = Absent
  /\ ev.pre.last # Undefined
  /\ ev.ret = curr
  /\ it # <<>>

\* C5: peek(group, value?) returns current when current matches (group,
\* value) and a falsy value otherwise; it never raises and never invokes the
\* error handler, at end of input too.
C5_PeekMatch ==
  (ev.op = "peek" /\ ev.group # Absent) =>
    /\ IF Matches(ev.pre.curr, ev.group[1], ev.value)
         THEN ev.ret = ev.pre.curr
         ELSE ~Truthy(ev.ret) /\ ev.ret \in {False, Null, Undefined}
    /\ ev.raised = <<>>
    /\ ev.calls = <<>>

\* A peek for a group and a value, at end of input, that found no match.
C5_Witness ==
  /\ ev.op = "peek"
  /\ ev.group = Given("ident")
  /\ ev.value = Given("foo")
  /\ IsEndOfInput(ev.pre.curr)
  /\ ev.ret = False

\* C6: expect(g, v) succeeds without invoking the error handler exactly when
\* accept(g, v) would succeed in the same state; it then returns the token
\* accept would return and leaves the state accept would leave.
C6_ExpectAgreesWithAccept ==
  ev.op = "expect" =>
    LET a == accept(ev.pre, ev.group[1], ev.value)
        succeeded == Truthy(ev.ret) /\ ev.calls = <<>> /\ ev.raised = <<>>
    IN /\ succeeded <=> Truthy(a.ret)
       /\ Truthy(a.ret) => /\ ev.ret = a.ret
                           /\ Lexer = a.lexer
                           /\ ev.pulls = a.pulls

\* An expect with a value that succeeded.
C6_Witness ==
  /\ ev.op = "expect"
  /\ ev.value = Given("foo")
  /\ Truthy(ev.ret)
  /\ ev.ret = last
  /\ ev.calls = <<>>

\* C7: a failing expect(g, v) invokes the installed error handler exactly
\* once, with an error that carries g, v (or its absence) and the token
\* current at call time; current, previous and the raw matches pulled are
\* unchanged.
C7_ExpectFailReports ==
  (ev.op = "expect" /\ AcceptFails(ev.pre, ev.group, ev.value)) =>
    /\ Len(ev.calls) = 1
    /\ ev.calls[1].handler = ev.pre.errorFn
    /\ ev.calls[1].error.cause.expectedGroup = ev.group[1]
    /\ ev.calls[1].error.cause.expectedValue = ev.value
    /\ ev.calls[1].error.cause.currentToken = ev.pre.curr
    /\ curr = ev.pre.curr
    /\ last = ev.pre.last
    /\ it = ev.pre.it
    /\ ev.pulls = 0

\* A failing expect at end of input, after the cursor has moved: the handler
\* received the end-of-input token.
C7_Witness ==
  /\ ev.op = "expect"
  /\ IsEndOfInput(ev.pre.curr)
  /\ ev.pre.last.type = "token"
  /\ ev.pre.last.group = "ident"
  /\ Len(ev.calls) = 1
  /\ IsEndOfInput(ev.calls[1].error.cause.currentToken)

\* C8: with no handler installed, a failing expect(g, v) raises the
\* unexpected-token error to its caller and returns no value; current stays,
\* so an accept or expect that follows and matches it succeeds.
C8_DefaultRaises ==
  [][/\ (ev'.op = "expect" /\ AcceptFails(ev'.pre, ev'.group, ev'.value)
          /\ installed' = "default") =>
          /\ Len(ev'.raised) = 1
          /\ ev'.raised[1].name = "LexerError"
          /\ ev'.raised[1].cause.name = "LexerErrorUnexpectedToken"
          /\ ev'.raised[1].cause.currentToken = curr
          /\ ev'.ret = NoValue
          /\ curr' = curr
     /\ (ev.op = "expect" /\ ev.raised # <<>> /\ installed = "default"
          /\ ev'.op \in {"accept", "expect"}
          /\ ~AcceptFails(ev.pre, ev'.group, ev'.value)) =>
          /\ ev'.ret = ev.pre.curr
          /\ ev'.raised = <<>>]_vars

\* A failing expect under the default handler, with a value, before the end
\* of input.
C8_Witness ==
  /\ ev.op = "expect"
  /\ installed = "default"
  /\ ev.value = Given("0123")
  /\ ev.pre.curr.group = "ident"
  /\ Len(ev.raised) = 1
  /\ ev.ret = NoValue

\* C9: with a caller's handler that returns normally, a failing expect(g, v)
\* returns, after the handler has been called, the falsy value the failed
\* accept(g, v) returned: no token and not the error.
C9_ExpectFailReturnsFalsy ==
  (ev.op = "expect" /\ AcceptFails(ev.pre, ev.group, ev.value)
     /\ installed \in {"collect", "ignore"}) =>
    /\ Len(ev.calls) = 1
    /\ ev.raised = <<>>
    /\ ev.ret = accept(ev.pre, ev.group[1], ev.value).ret
    /\ ev.ret = Null
    /\ ~Truthy(ev.ret)

\* A failing expect under a caller's handler that returns normally.
C9_Witness ==
  /\ ev.op = "expect"
  /\ installed = "collect"
  /\ ev.pre.curr.group = "number"
  /\ ev.group = Given("ident")
  /\ Len(ev.calls) = 1
  /\ ev.ret = Null

\* C10: after onerror(h) every failing expect invokes h, and no handler
\* installed before it, until onerror is called again; onerror itself invokes
\* no handler and leaves current, previous, the filter and the raw matches
\* pulled unchanged.
C10_OnErrorReplaces ==
  /\ (ev.op = "expect" /\ AcceptFails(ev.pre, ev.group, ev.value)) =>
       /\ Len(ev.calls) = 1
       /\ ev.calls[1].handler = installed
  /\ ev.op = "onerror" =>
       /\ installed = ev.fn
       /\ ev.calls = <<>>
       /\ ev.raised = <<>>
       /\ curr = ev.pre.curr
       /\ last = ev.pre.last
       /\ filterFn = ev.pre.filterFn
       /\ it = ev.pre.it
       /\ ev.pulls = 0

\* A failing expect that invoked a handler installed by onerror.
C10_Witness ==
  /\ ev.op = "expect"
  /\ installed = "ignore"
  /\ Len(ev.calls) = 1
  /\ ev.calls[1].handler = "ignore"
  /\ ev.raised = <<>>

\* The raw matches of s after the first k.
DropFirst(s, k) == SubSeq(s, k + 1, Len(s))

\* C11: filter(p) called while p rejects current leaves as current the first
\* raw match after the old current that p accepts, or the end-of-input token
\* when there is none; the raw matches in between have been pulled and are
\* gone.
C11_FilterRevalidates ==
  (ev.op = "filter" /\ ~FilterFn(ev.fn, ev.pre.curr)) =>
    IF AcceptedAt(ev.pre.it, ev.fn) = {}
      THEN /\ IsEndOfInput(curr)
           /\ it = <<>>
           /\ ev.pulls = Len(ev.pre.it) + 1
      ELSE LET k == FirstAcceptedAt(ev.pre.it, ev.fn)
           IN /\ curr = ev.pre.it[k]
              /\ it = DropFirst(ev.pre.it, k)
              /\ ev.pulls = k

\* A filter call that dropped current and one more raw match on its way to
\* the first match its predicate accepts.
C11_Witness ==
  /\ ev.op = "filter"
  /\ ev.fn = "number"
  /\ ev.pre.curr.group = "ident"
  /\ ev.pulls = 2
  /\ curr.group = "number"
  /\ curr = raw[3]

\* C12 as claimed: right after filter(p) returns, p(current) is true.
C12_CurrentPassesFilter ==
  ev.op = "filter" => FilterFn(ev.fn, curr)

\* C12, amended: right after filter(p) returns, p is the active filter and
\* current either passes p or is the end-of-input token.
C12_CurrentPassesFilterOrIsEof ==
  ev.op = "filter" =>
    /\ filterFn = ev.fn
    /\ FilterFn(ev.fn, curr) \/ IsEndOfInput(curr)

\* A filter call that pulled and found a raw match its predicate accepts.
C12_Witness ==
  /\ ev.op = "filter"
  /\ ev.fn = "ident"
  /\ ev.pre.curr.group = "number"
  /\ ev.pulls >= 1
  /\ FilterFn(ev.fn, curr)
  /\ ~IsEndOfInput(curr)

\* The raw matches of the input that the filter fn accepts, in order.
AcceptedOf(fn) == SelectSeq(raw, LAMBDA token : FilterFn(fn, token))

\* C13: with a filter p installed right after construction and never
\* changed, the n-th advance() returns the n-th raw match that satisfies p,
\* and the end-of-input token once they have all been returned.
C13_FilteredAdvances ==
  (scenario = "filtered" /\ ev.op = "advance") =>
    IF advanced <= Len(AcceptedOf(filterFn))
      THEN ev.ret = AcceptedOf(filterFn)[advanced]
      ELSE IsEndOfInput(ev.ret)

\* The second advance() under a filter that let the first and the third raw
\* match through.
C13_Witness ==
  /\ scenario = "filtered"
  /\ ev.op = "advance"
  /\ advanced = 2
  /\ filterFn = "number"
  /\ Len(raw) = 3
  /\ ev.ret = raw[3]
  /\ IsEndOfInput(curr)

\* C14: once current is the end-of-input token it stays the end-of-input
\* token whatever is called next, and every advance() and peek() returns that
\* same token.
C14_EofIsFinal ==
  [][IsEndOfInput(curr) =>
       /\ curr' = curr
       /\ ev'.op = "advance" => ev'.ret = curr
       /\ (ev'.op = "peek" /\ ev'.group = Absent) => ev'.ret = curr]_vars

\* An advance() at end of input that followed an advance() at end of input.
C14_Witness ==
  /\ ev.op = "advance"
  /\ IsEndOfInput(ev.pre.last)
  /\ IsEndOfInput(ev.pre.curr)
  /\ IsEndOfInput(ev.ret)
  /\ IsEndOfInput(curr)
  /\ raw # <<>>

\* The token is none of the raw matches: the sequence was exhausted when it
\* was produced.
NotRaw(token) == \A i \in 1..Len(raw) : raw[i] # token

\* C15: when the raw matches are exhausted, current, the token peek() and
\* advance() return and the token a failing expect reports are one and the
\* same representation: group "eof", value "", index the length of the input.
C15_OneEofRepresentation ==
  /\ NotRaw(curr) => IsEndOfInput(curr)
  /\ (ev.op \in {"advance", "peek", "expect"} /\ NotRaw(ev.pre.curr)) =>
       /\ ev.pre.curr = curr
       /\ (ev.op = "advance" \/ (ev.op = "peek" /\ ev.group = Absent)) =>
            /\ IsEndOfInput(ev.ret)
            /\ ev.ret = curr
       /\ (ev.op = "expect" /\ ev.calls # <<>>) =>
            /\ IsEndOfInput(ev.calls[1].error.cause.currentToken)
            /\ ev.calls[1].error.cause.currentToken = curr

\* A failing expect on a non-empty input whose matches the filter all
\* rejected: the error carries the end-of-input token.
C15_Witness ==
  /\ ev.op = "expect"
  /\ filterFn = "none"
  /\ Len(raw) = 2
  /\ ev.calls # <<>>
  /\ ev.calls[1].error.cause.currentToken.group = "eof"
  /\ ev.calls[1].error.cause.currentToken.index = Len(input)
  /\ Len(input) > 0

\* The tokenizer yields its matches in non-decreasing index order, none
\* beyond the end of the input.
RawInOrder ==
  /\ \A i, j \in 1..Len(raw) : i <= j => raw[i].index <= raw[j].index
  /\ \A i \in 1..Len(raw) : raw[i].index <= Len(input)

\* C16: for such a tokenizer an advance() never returns a token with a
\* smaller index than the advance() before it returned, whatever was called
\* in between.
C16_AdvanceIndexMonotone ==
  [][(RawInOrder /\ ev'.op = "advance" /\ Truthy(lastAdvanced)) =>
       /\ Truthy(ev'.ret)
       /\ lastAdvanced.index <= ev'.ret.index]_vars

\* An advance() that returned a token past the one the advance() before it
\* returned, with an accept and a filter change in between.
C16_Witness ==
  /\ ev.op = "advance"
  /\ lastAdvanced = ev.ret
  /\ Truthy(ev.pre.last)
  /\ ev.pre.last.index > 0
  /\ ev.ret.index > ev.pre.last.index
  /\ scenario = "mixed"
  /\ filterFn = "ident"

\* C17: only a failing expect invokes the error handler or raises: advance,
\* peek, accept, filter, onerror and the construction never do, at end of
\* input, on empty input and under a filter that rejects every match as well.
C17_OnlyExpectReports ==
  (ev.calls # <<>> \/ ev.raised # <<>>) =>
    /\ ev.op = "expect"
    /\ AcceptFails(ev.pre, ev.group, ev.value)

\* An accept that failed at the end of an input whose matches the filter all
\* rejected, and reported nothing.
C17_Witness ==
  /\ ev.op = "accept"
  /\ filterFn = "none"
  /\ raw # <<>>
  /\ IsEndOfInput(curr)
  /\ ev.ret = Null
  /\ ev.calls = <<>>
  /\ ev.raised = <<>>

\* C18: when the factory returns, one raw match has been pulled (one pull
\* attempt on an empty sequence), current is the first raw match, or the
\* end-of-input token when there is none, and previous is undefined.
C18_Construction ==
  ev.op = "createLexer" =>
    /\ ev.pulls = 1
    /\ last = Undefined
    /\ ev.pre.it = raw
    /\ IF raw = <<>>
         THEN IsEndOfInput(curr) /\ it = <<>>
         ELSE curr = raw[1] /\ it = DropFirst(raw, 1)

\* A lexer just created for an input of three lexemes.
C18_Witness ==
  /\ ev.op = "createLexer"
  /\ Len(raw) = 3
  /\ curr = raw[1]
  /\ Len(it) = 2

\* The number of raw matches pulled so far.
Pulled == Len(raw) - Len(it)

\* C19: the raw matches pulled so far are exactly those up to and including
\* the one current holds, all of them when current is the end-of-input token;
\* each it.next() call yielded the next raw match or found none, so none is
\* pulled twice.
C19_PulledUpToCurrent ==
  /\ Len(it) <= Len(raw)
  /\ it = DropFirst(raw, Pulled)
  /\ IF IsEndOfInput(curr)
       THEN it = <<>>
       ELSE Pulled >= 1 /\ curr = raw[Pulled]
  /\ Len(it) <= Len(ev.pre.it)
  /\ ev.pulls = (Len(ev.pre.it) - Len(it)) + (IF ev.pulls > 0 /\ IsEndOfInput(curr) THEN 1 ELSE 0)

\* A filter call left current on the last raw match, two matches after the
\* one it held.
C19_Witness ==
  /\ ev.op = "filter"
  /\ Len(raw) = 3
  /\ ev.pre.curr = raw[1]
  /\ curr = raw[3]
  /\ it = <<>>
  /\ ev.pulls = 2

\* The call recorded in ev ran advance(): called by the caller, by the
\* constructor, or by an accept or expect that matched.
AdvanceRan ==
  \/ ev.op \in {"advance", "createLexer"}
  \/ ev.op \in {"accept", "expect"} /\ Truthy(ev.ret)

\* The raw matches the call recorded in ev consumed.
Consumed == Len(ev.pre.it) - Len(it)

\* Rejected raw matches precede the next accepted one in what the call found
\* left of the sequence.
RejectedPrecedeAccepted ==
  /\ AcceptedAt(ev.pre.it, ev.pre.filterFn) # {}
  /\ FirstAcceptedAt(ev.pre.it, ev.pre.filterFn) > 1

\* C20 as stated: every advance() consumes one or more raw matches, and more
\* than one exactly when rejected matches precede the next accepted match.
C20_AdvanceConsumesOneOrMore ==
  AdvanceRan =>
    /\ Consumed >= 1
    /\ (Consumed > 1 <=> RejectedPrecedeAccepted)

\* C20: every advance() makes at least one pull attempt and consumes the raw
\* matches up to and including the next one the filter accepts, or all that
\* remain when it accepts none: none when the sequence is exhausted, and more
\* than one exactly when a rejected match precedes the next accepted one or
\* two or more rejected matches are all that remain.
C20_AdvanceConsumesToAccepted ==
  AdvanceRan =>
    /\ ev.pulls >= 1
    /\ it = DropFirst(ev.pre.it, Consumed)
    /\ Consumed =
         IF AcceptedAt(ev.pre.it, ev.pre.filterFn) = {}
           THEN Len(ev.pre.it)
           ELSE FirstAcceptedAt(ev.pre.it, ev.pre.filterFn)
    /\ (Consumed = 0 <=> ev.pre.it = <<>>)
    /\ (Consumed > 1 <=>
          \/ RejectedPrecedeAccepted
          \/ AcceptedAt(ev.pre.it, ev.pre.filterFn) = {} /\ Len(ev.pre.it) > 1)

\* An advance() that skipped one rejected raw match and stopped at the
\* accepted one after it.
C20_Witness ==
  /\ ev.op = "advance"
  /\ ev.pre.filterFn = "number"
  /\ Len(ev.pre.it) = 2
  /\ ev.pre.it[1].group = "ident"
  /\ Consumed = 2
  /\ curr = ev.pre.it[2]

\* The four lines of an unexpected-token message, the expected value v
\* rendered in quotes after the group g when quoted is TRUE.
Rendered(t, g, v, quoted) ==
     "Unexpected token: " \o t.value
  \o "\n        expected: " \o g \o " "
  \o (IF quoted THEN Quoted(IF IsNullish(v) THEN "undefined" ELSE v[1]) ELSE "")
  \o "\n    but received: " \o t.group \o " " \o Quoted(t.value)
  \o "\n     at position: " \o ToString(t.index)

\* The call recorded in ev is an expect that failed and reported an error.
ExpectReported == ev.op = "expect" /\ ev.calls # <<>>

\* C21 as stated: the error of a failing expect(g, v) renders four lines,
\* "Unexpected token: <value>", "expected: <g>" followed by the quoted v when
\* v is given, "but received: <group> "<value>"", "at position: <index>", all
\* of the token current at the time of the failure.
C21_MessageFourLines ==
  ExpectReported =>
    ev.calls[1].error.message =
      Rendered(ev.pre.curr, ev.group[1], ev.value, ~IsNullish(ev.value))

\* The source of x, when x is a token, holds the input the lexer was created
\* for.
SourceIsInput(x) == Truthy(x) => x.source.input = input

\* C22: every token the lexer returns or holds, the end-of-input token
\* included, carries a source whose input is the lexer's input string, so any
\* two of its tokens have equal source input.
C22_SourceIsInput ==
  /\ SourceIsInput(ev.ret)
  /\ SourceIsInput(curr)
  /\ SourceIsInput(last)
  /\ (Truthy(ev.ret) /\ Truthy(curr)) => ev.ret.source.input = curr.source.input
  /\ (Truthy(last) /\ Truthy(curr)) => last.source.input = curr.source.input

\* An advance() returned the last raw match of a non-empty input and left the
\* end-of-input token as current: both carry the input.
C22_Witness ==
  /\ ev.op = "advance"
  /\ Len(raw) = 2
  /\ ev.ret = raw[2]
  /\ IsEndOfInput(curr)
  /\ ev.ret.source.input = input
  /\ curr.source.input = input
  /\ input # ""

\* x is one of the raw matches of the input.
IsRawMatch(x) == \E i \in 1..Len(raw) : raw[i] = x

\* C23: in every state from construction on, current is the end-of-input
\* token or a raw match that the active filter accepts.
C23_CurrentAcceptedOrEof ==
  \/ IsEndOfInput(curr)
  \/ IsRawMatch(curr) /\ FilterFn(filterFn, curr)

\* An advance() under a filter skipped a rejected raw match and left an
\* accepted one as current.
C23_Witness ==
  /\ ev.op = "advance"
  /\ filterFn = "number"
  /\ Len(raw) = 3
  /\ raw[2].group = "ident"
  /\ ev.pre.curr = raw[1]
  /\ curr = raw[3]
  /\ FilterFn(filterFn, curr)

\* C24: filter(p) called while current satisfies p makes no it.next() call
\* and leaves current and the iterator as they were; every filter(p) call
\* leaves previous and the error handler as they were, returns undefined and
\* reports no error.
C24_FilterFrame ==
  ev.op = "filter" =>
    /\ FilterFn(ev.fn, ev.pre.curr) =>
         /\ ev.pulls = 0
         /\ curr = ev.pre.curr
         /\ it = ev.pre.it
    /\ filterFn = ev.fn
    /\ last = ev.pre.last
    /\ errorFn = ev.pre.errorFn
    /\ ev.ret = Undefined
    /\ ev.calls = <<>>
    /\ ev.raised = <<>>

\* filter(p) called with a caller's handler installed, a previous token and
\* raw matches left, while current satisfies p.
C24_Witness ==
  /\ ev.op = "filter"
  /\ ev.fn = "number"
  /\ ev.pre.curr.group = "number"
  /\ Truthy(ev.pre.last)
  /\ ev.pre.it # <<>>
  /\ ev.pre.errorFn = "collect"
  /\ curr = ev.pre.curr
  /\ ev.pulls = 0

\* The call recorded in ev returned a raw match from advance, accept or
\* expect.
ReturnedMatch(e) == e.op \in {"advance", "accept", "expect"} /\ IsMatch(e.ret)

\* C25: whatever calls are interleaved and however the filter is changed,
\* each raw match that advance, accept or expect returns lies after every raw
\* match returned or discarded before it: the positions returned increase
\* strictly, and no discarded match is returned later.
C25_ReturnedStrictlyForward ==
  [][ReturnedMatch(ev') =>
       /\ IsRawMatch(ev'.ret)
       /\ PosOf(ev'.ret) > passed
       /\ passed' >= PosOf(ev'.ret)]_vars

\* An advance() returned the third raw match after the first had been
\* returned, the second discarded by a filter, and the filter relaxed.
C25_Witness ==
  /\ ev.op = "advance"
  /\ Len(raw) = 3
  /\ ev.ret = raw[3]
  /\ ev.pre.last = raw[1]
  /\ filterFn = "all"
  /\ scenario = "mixed"
  /\ passed = 3

\* C26: every call returns after a bounded number of it.next() calls: an
\* advance() or filter() makes at most one more than there are raw matches
\* not pulled yet, whatever the filter; peek, onerror and a failing accept or
\* expect make none.
C26_PullsBounded ==
  /\ ev.pulls <= Len(ev.pre.it) + 1
  /\ ev.op \in {"peek", "onerror"} => ev.pulls = 0
  /\ (ev.op \in {"accept", "expect"} /\ ~Truthy(ev.ret)) => ev.pulls = 0
  /\ (ev.op = "filter" /\ FilterFn(ev.fn, ev.pre.curr)) => ev.pulls = 0

\* A filter() that rejects every match read the two raw matches left and
\* the exhausted iterator once: the most the bound allows.
C26_Witness ==
  /\ ev.op = "filter"
  /\ ev.fn = "none"
  /\ Len(ev.pre.it) = 2
  /\ ev.pulls = 3
  /\ IsEndOfInput(curr)

\* The call recorded in ev is accept("eof") or expect("eof"), with no value
\* or with the empty value, made at the end of the input.
EofAskedAtEnd ==
  /\ ev.op \in {"accept", "expect"}
  /\ ev.group = Given("eof")
  /\ ev.value \in {Absent, Given("")}
  /\ IsEndOfInput(ev.pre.curr)

\* C27: at the end of the input accept("eof") and expect("eof") return the
\* end-of-input token, report no error and leave the end-of-input token as
\* current, so that they succeed again however often they are repeated.
C27_EofAccepted ==
  EofAskedAtEnd =>
    /\ IsEndOfInput(ev.ret)
    /\ ev.calls = <<>>
    /\ ev.raised = <<>>
    /\ IsEndOfInput(curr)
    /\ ~AcceptFails(Lexer, Given("eof"), Absent)
    /\ expect(Lexer, "eof", Absent).calls = <<>>

\* An expect("eof") repeated at the end of a non-empty input: the call before
\* it had returned the end-of-input token already.
C27_Witness ==
  /\ ev.op = "expect"
  /\ ev.group = Given("eof")
  /\ raw # <<>>
  /\ IsEndOfInput(ev.pre.curr)
  /\ IsEndOfInput(ev.pre.last)
  /\ IsEndOfInput(ev.ret)
  /\ errorFn = "default"

\* C28 as stated: the expected line of the message holds the quoted expected
\* value exactly when a value was passed to expect, and the error's
\* expectedValue is the value passed.
C28_QuotedIffPassed ==
  ExpectReported =>
    LET cause == ev.calls[1].error.cause
    IN /\ cause.expectedValue = ev.value
       /\ \E quoted \in BOOLEAN :
            /\ cause.message = Rendered(cause.currentToken, cause.expectedGroup, ev.value, quoted)
            /\ quoted <=> ~IsNullish(ev.value)

C30_PreviousIsLastAdvanced ==
  /\ ev.op = "createLexer" => last = Undefined
  /\ (AdvanceRan /\ ev.op = "createLexer") => ev.pre.curr = Undefined
  /\ (AdvanceRan /\ ev.op # "createLexer") => last = ev.ret /\ last = ev.pre.curr
  /\ ~AdvanceRan => last = ev.pre.last

\* A matching accept made a new token the previous one.
C30_Witness ==
  /\ ev.op = "accept"
  /\ Truthy(ev.ret)
  /\ Truthy(ev.pre.last)
  /\ ev.pre.last # ev.ret
  /\ last = ev.ret
  /\ ~IsEndOfInput(last)

====
